---- MODULE Spec2Model ----
(***************************************************************************)
(* The NetworkGlobe renderer of static/js/globe.js, in its three copies:   *)
(*   "v1"  static/js/globe.js lines 3-766     (first NetworkGlobe class)   *)
(*   "v2"  static/js/globe.js lines 803-1520  (second NetworkGlobe class)  *)
(*   "p2"  unnamed/part_002  lines 3-851      (third copy of the class)    *)
(* Angles are integers in units of 1/UnitsPerDegree degree, radii in       *)
(* units of 1/Milli of a scene unit, so that the arithmetic of the code is *)
(* exact.  A position is kept in the spherical coordinates that            *)
(* latLngAltToVector3 turns into x, y, z (phi, theta, radius).             *)
(* The other globe classes of the repository are separate objects with     *)
(* their own variable each: GlobeScene (static/js/globe.js 1548-2412), the *)
(* layered NetworkGlobe of staticfiles/js/globe3d_full.js and Z96AGlobe of *)
(* static/js/globe3d.js.  The scripts of the page around the globes        *)
(* (static/js/main.js, staticfiles/js/wallet.js, staticfiles/js/news.js,   *)
(* static/js/globe_main.js) keep their state in the fields of window.      *)
(***************************************************************************)
EXTENDS Integers, Sequences, FiniteSets, Bags, TLC

VARIABLES
    variant,        \* which copy of the class is running
    pc,             \* position of the async init(): fetchNetwork, fetchCables, running, failed
    networkData,    \* this.networkData
    cableData,      \* this.cableData
    settings,       \* this.settings
    meshes,         \* the element meshes of the current build (the objects the arrays refer to)
    satellites,     \* this.satellites: references into meshes
    equipment,      \* this.equipment (v2, p2), this.groundStations (v1): references into meshes
    connections,    \* this.connections
    cableLines,     \* this.cableLines (v2)
    scene,          \* the children of this.scene that the class adds: a bag of object tags
    earthRotation,  \* this.earth.rotation.y, in frames of RotationPerFrame
    camera,         \* camera.position.z and the OrbitControls distance limits, in 1/Milli
    selectedElement,\* this.selectedElement (an element id, or NoSelection)
    counters,       \* text of #elementCount and #connectionCount
    animating,      \* TRUE once animate() has run and re-scheduled itself
    lastFetch,      \* how the topology request ended (kept for the properties only)
    globeScene,     \* window.globeScene: the GlobeScene object of static/js/globe.js
    layerGlobe,     \* the layered NetworkGlobe of staticfiles/js/globe3d_full.js
    z96aGlobe,      \* window.Z96AGlobe: the Z96AGlobe object of static/js/globe3d.js
    window          \* the page around the globes: one field for each script's state

\* the other globe objects, which the NetworkGlobe class never touches
otherGlobes == <<globeScene, layerGlobe, z96aGlobe>>

vars == <<variant, pc, networkData, cableData, settings, meshes, satellites, equipment,
          connections, cableLines, scene, earthRotation, camera, selectedElement,
          counters, animating, lastFetch, globeScene, layerGlobe, z96aGlobe, window>>

\* the variables of the NetworkGlobe class
networkGlobe == <<variant, pc, networkData, cableData, settings, meshes, satellites,
                  equipment, connections, cableLines, scene, earthRotation, camera,
                  selectedElement, counters, animating, lastFetch>>

----------------------------------------------------------------------------
(* Bounds of the model *)

MaxTicks == 2
MaxRotTicks == 524
MaxSceneObjects == 10
MaxSpinTicks == 6284
MaxSockets == 5
MaxTime == 6
DebounceWait == 2

(* Program constants *)

ArticlesPerPage == 10

UnitsPerDegree == 5000000
Milli == 1000
EarthRadius == 10
RotationPerFrame == 286479
SurfaceRadius == 10010
CableRadius == 10050
OrbitBase == 12
MinDistance == 15
MaxDistance == 100
InitialZoom == 50
InitialCameraZ == 25
Percent == 100

Deg(d) == d * UnitsPerDegree
FullTurn == Deg(360)

Variants == {"v1", "v2", "p2"}
NoSelection == "none"

----------------------------------------------------------------------------
(* Data: the documents the two requests can deliver *)

Null == [null |-> TRUE]
NotJson == [notJson |-> TRUE]

El(id, type, network, lat, lng, alt) ==
    [id |-> id, type |-> type, network |-> network, lat |-> lat, lng |-> lng, alt |-> alt]

Conn(from, to, type) == [from |-> from, to |-> to, type |-> type]

\* A (existing router), B (proposed satellite), link A-B: the case of the spec's
\* filter-correctness property; plus a station, a switch and a dangling link.
TopoAB ==
    [elements |-> << El("A", "router", "existing", Deg(0), Deg(10), 0),
                     El("B", "satellite", "proposed", Deg(45), Deg(-74), 550),
                     El("S", "ground_station", "existing", Deg(53), Deg(27), 0),
                     El("W", "switch", "proposed", Deg(-30), Deg(150), 0) >>,
     connections |-> << Conn("A", "B", "satellite_link"),
                        Conn("A", "S", "fiber"),
                        Conn("S", "ghost", "fiber") >>]

TopoCore ==
    [elements |-> << El("R", "core_router", "existing", Deg(10), Deg(-170), 0),
                     El("T", "ground_station", "proposed", Deg(-45), Deg(175), 100),
                     El("U", "satellite", "existing", Deg(0), Deg(0), 550) >>,
     connections |-> << Conn("R", "T", "fiber"), Conn("U", "T", "satellite_link") >>]

\* a batch with two malformed records: X has no lat, Y has no lng
TopoMalformed ==
    [elements |-> << El("G", "ground_station", "existing", Deg(10), Deg(20), 0),
                     [id |-> "X", type |-> "router", network |-> "existing",
                      lng |-> Deg(30), alt |-> 0],
                     [id |-> "Y", type |-> "ground_station", network |-> "proposed",
                      lat |-> Deg(5), alt |-> 0],
                     El("Z", "satellite", "existing", Deg(0), Deg(0), 550) >>,
     connections |-> << Conn("G", "X", "fiber") >>]

ErrorBody == [error |-> "not found"]
NoElementsBody == [connections |-> <<>>]

Pt(lat, lng) == [lat |-> lat, lng |-> lng]

CablesMixed ==
    [cables |-> << [id |-> "c1", type |-> "submarine",
                    route |-> << Pt(Deg(40), Deg(-74)), Pt(Deg(51), Deg(0)) >>],
                   [id |-> "c2", type |-> "terrestrial",
                    route |-> << Pt(Deg(10), Deg(10)) >>],
                   [id |-> "c3", type |-> "submarine"],
                   [id |-> "c4", type |-> "terrestrial",
                    route |-> << Pt(Deg(0), Deg(0)), Pt(Deg(5), Deg(5)), Pt(Deg(9), Deg(9)) >>] >>]

NoCablesBody == [name |-> "cables"]

Reject == [kind |-> "reject"]
Response(ok, body) == [kind |-> "response", ok |-> ok, json |-> body]

NetworkOutcomes ==
    { Reject,
      Response(TRUE, TopoAB),
      Response(TRUE, TopoCore),
      Response(FALSE, ErrorBody),
      Response(FALSE, NotJson),
      Response(TRUE, NoElementsBody),
      Response(TRUE, Null) }

CableOutcomes ==
    { Reject, Response(TRUE, CablesMixed), Response(FALSE, NotJson), Response(TRUE, NoCablesBody) }

\* Date.now() at a frame, in seconds
Times == {0, 1}
Zooms == {100}

----------------------------------------------------------------------------
(* The hardcoded sample datasets *)

\* v1 loadDemoData
DemoDataV1 ==
    [elements |-> << El("1", "satellite", "proposed", 203564000, -370030000, 550),
                     El("2", "ground_station", "existing", 269522500, 137807500, 0),
                     El("3", "router", "existing", 278779000, 188086500, 0) >>,
     connections |-> << Conn("1", "2", "satellite_link") >>]

\* v2 loadDemoData
DemoDataV2 ==
    [elements |-> << El("demo-sat1", "satellite", "existing", 203564000, -370030000, 550) >>,
     connections |-> <<>>]

\* p2 loadCableData's fallback
DemoCablesP2 ==
    [cables |-> << [id |-> "test1", type |-> "submarine", color |-> "#ff0000",
                    route |-> << Pt(203564000, -370030000), Pt(257537000, -639000) >>] >>]

EmptyCables == [cables |-> <<>>]

\* Which copies define a loadDemoData method: part_002 calls this.loadDemoData()
\* in its catch block but its class has no such method.
HasLoadDemoData(v) == v \in {"v1", "v2"}

LoadDemoData(v) == IF v = "v1" THEN DemoDataV1 ELSE DemoDataV2

----------------------------------------------------------------------------
(* Pure functions *)

Has(r, f) == f \in DOMAIN r

\* latLngAltToVector3: phi = 90 - lat, theta = lng + 180 (sin and cos take it
\* modulo a full turn), radius = 10 + alt / 1000
LatLngAltToVector3(lat, lng, alt) ==
    [phi |-> Deg(90) - lat,
     theta |-> (lng + Deg(180)) % FullTurn,
     radius |-> EarthRadius * Milli + alt]

\* the vector the projection returns when lat or lng is undefined: 90 - undefined
\* and undefined + 180 are NaN, and so are the coordinates computed from them
NaNVector == [nan |-> TRUE]

\* v.clone().normalize().multiplyScalar(r); NaN stays NaN
SnapToRadius(v, r) == IF Has(v, "nan") THEN v ELSE [v EXCEPT !.radius = r]

\* the satellite path of animate(): a function of the time and the index
OrbitPosition(time, index) == [orbitTime |-> time, orbitIndex |-> index, orbitBase |-> OrbitBase]

ShouldShowElementV1(s, element) ==
    IF ~s.showExisting /\ element.network = "existing" THEN FALSE
    ELSE IF ~s.showProposed /\ element.network = "proposed" THEN FALSE
    ELSE CASE element.type = "satellite" -> s.showSatellites
           [] element.type \in {"ground_station", "router"} -> s.showStations
           [] OTHER -> TRUE

ShouldShowElementV2(s, element) ==
    IF ~s.showExisting /\ element.network = "existing" THEN FALSE
    ELSE IF ~s.showProposed /\ element.network = "proposed" THEN FALSE
    ELSE CASE element.type = "satellite" -> s.showSatellites
           [] element.type = "ground_station" -> s.showStations
           [] element.type \in {"router", "core_router"} -> s.showRouters
           [] OTHER -> TRUE

ShouldShowElementP2(s, element) ==
    IF ~s.showExisting /\ element.network = "existing" THEN FALSE
    ELSE IF ~s.showProposed /\ element.network = "proposed" THEN FALSE
    ELSE CASE element.type = "satellite" -> s.showSatellites
           [] element.type = "ground_station" -> s.showStations
           [] element.type = "router" -> s.showRouters
           [] OTHER -> TRUE

ShouldShowElement(v, s, element) ==
    CASE v = "v1" -> ShouldShowElementV1(s, element)
      [] v = "v2" -> ShouldShowElementV2(s, element)
      [] OTHER -> ShouldShowElementP2(s, element)

\* Mutant of ShouldShowConnection: every connection is shown.
ShouldShowConnectionAlways(s, connection) == TRUE

ShouldShowConnection(s, connection) == s.showCables

\* object tags of the scene graph
ElementTag(e) == [kind |-> "element", key |-> e.id]
GlowTag(e) == [kind |-> "glow", key |-> e.id]
ConnectionTag(c) == [kind |-> "connection", key |-> c.from \o ">" \o c.to]
CableTag(c) == [kind |-> "cable", key |-> c.id]

One(tag) == SetToBag({tag})

RECURSIVE RemoveAll(_, _)
\* scene.remove(o) for each tag of a sequence
RemoveAll(sc, tags) ==
    IF tags = <<>> THEN sc
    ELSE RemoveAll(IF BagIn(Head(tags), sc) THEN sc (-) One(Head(tags)) ELSE sc, Tail(tags))

\* the globe's arrays and scene as one value, threaded through the methods
Globe == [meshes |-> meshes, satellites |-> satellites, equipment |-> equipment,
          connections |-> connections, cableLines |-> cableLines, scene |-> scene]

MeshTags(g, refs) == [i \in 1..Len(refs) |-> ElementTag(g.meshes[refs[i]].userData)]
LineTags(lines) == [i \in 1..Len(lines) |-> lines[i].tag]

\* Mutant of ClearNetworkElements: the cable lines are left in place, as in the
\* clearNetworkElements of the other two copies.
ClearNetworkElementsKeepingCables(v, g) ==
    LET s1 == RemoveAll(g.scene, MeshTags(g, g.equipment))
        s2 == RemoveAll(s1, LineTags(g.connections))
    IN [meshes |-> <<>>, satellites |-> <<>>, equipment |-> <<>>, connections |-> <<>>,
        cableLines |-> g.cableLines, scene |-> s2]

ClearNetworkElements(v, g) ==
    LET s1 == RemoveAll(g.scene,
                  IF v = "v1" THEN MeshTags(g, g.satellites) \o MeshTags(g, g.equipment)
                  ELSE MeshTags(g, g.equipment))
        s2 == RemoveAll(s1, LineTags(g.connections))
        s3 == IF v = "v2" THEN RemoveAll(s2, LineTags(g.cableLines)) ELSE s2
    IN [meshes |-> <<>>, satellites |-> <<>>, equipment |-> <<>>, connections |-> <<>>,
        cableLines |-> IF v = "v2" THEN <<>> ELSE g.cableLines,
        scene |-> s3]

\* the position createNetworkElements gives a new mesh
InitialPosition(v, element, position) ==
    IF v = "v1" THEN position
    ELSE IF element.type # "satellite" /\ element.alt = 0
         THEN SnapToRadius(position, SurfaceRadius)
         ELSE position

UserData(v, element, position) ==
    IF v = "v1" THEN element @@ [originalPosition |-> position]
    ELSE element @@ [originalPosition |-> position,
                     isSatellite |-> (element.type = "satellite")]

\* createElementMesh adds a glow sphere for a proposed element in v1 and p2
AddsGlow(v, element) == v \in {"v1", "p2"} /\ element.network = "proposed"

\* whether the new mesh is pushed to this.equipment / this.groundStations
Tracked(v, element) ==
    IF v = "v1" THEN element.type \in {"ground_station", "router"} ELSE TRUE

RECURSIVE AddElements(_, _, _, _)
\* the forEach of createNetworkElements
AddElements(v, s, els, g) ==
    IF els = <<>> THEN g
    ELSE LET element == Head(els) IN
         IF ~ShouldShowElement(v, s, element) THEN AddElements(v, s, Tail(els), g)
         ELSE LET position == IF Has(element, "lat") /\ Has(element, "lng")
                              THEN LatLngAltToVector3(element.lat, element.lng, element.alt)
                              ELSE NaNVector
                  mesh == [userData |-> UserData(v, element, position),
                           position |-> InitialPosition(v, element, position)]
                  ref == Len(g.meshes) + 1
                  sc == (IF AddsGlow(v, element) THEN g.scene (+) One(GlowTag(element))
                         ELSE g.scene) (+) One(ElementTag(element))
              IN AddElements(v, s, Tail(els),
                     [g EXCEPT !.meshes = Append(@, mesh),
                               !.scene = sc,
                               !.satellites = IF element.type = "satellite"
                                              THEN Append(@, ref) ELSE @,
                               !.equipment = IF Tracked(v, element) /\
                                                 ~(v = "v1" /\ element.type = "satellite")
                                              THEN Append(@, ref) ELSE @])

\* the references findElementById searches, in its order
Findable(v, g) == IF v = "v1" THEN g.satellites \o g.equipment ELSE g.equipment

\* Mutant of FindElementById: the callback assigns (=) where it should compare
\* (===), so find returns the first mesh whatever the id.
FindElementByIdAssigning(v, g, id) ==
    LET refs == Findable(v, g) IN IF refs = <<>> THEN 0 ELSE refs[1]

\* findElementById: the first mesh with that id, 0 for undefined
FindElementById(v, g, id) ==
    LET refs == Findable(v, g)
        hits == {i \in 1..Len(refs) : g.meshes[refs[i]].userData.id = id}
    IN IF hits = {} THEN 0
       ELSE refs[CHOOSE i \in hits : \A j \in hits : i <= j]

RECURSIVE AddConnections(_, _, _, _)
\* the forEach of createConnections
AddConnections(v, s, conns, g) ==
    IF conns = <<>> THEN g
    ELSE LET conn == Head(conns)
             fromElement == FindElementById(v, g, conn.from)
             toElement == FindElementById(v, g, conn.to)
         IN IF fromElement # 0 /\ toElement # 0 /\ ShouldShowConnection(s, conn)
            THEN LET line == [from |-> g.meshes[fromElement].userData.originalPosition,
                              to |-> g.meshes[toElement].userData.originalPosition,
                              type |-> conn.type,
                              conn |-> conn,
                              tag |-> ConnectionTag(conn)]
                 IN AddConnections(v, s, Tail(conns),
                        [g EXCEPT !.scene = @ (+) One(line.tag),
                                  !.connections = Append(@, line)])
            ELSE AddConnections(v, s, Tail(conns), g)

CreateConnections(v, s, nd, g) ==
    IF nd = Null \/ ~Has(nd, "connections") THEN g
    ELSE AddConnections(v, s, nd.connections, g)

\* createNetworkElements throws a TypeError when networkData has no elements list
CreateNetworkElementsThrows(nd) == nd # Null /\ ~Has(nd, "elements")

CreateNetworkElements(v, s, nd, g) ==
    IF nd = Null THEN g
    ELSE IF ~Has(nd, "elements") THEN ClearNetworkElements(v, g)
    ELSE CreateConnections(v, s, nd,
             AddElements(v, s, nd.elements, ClearNetworkElements(v, g)))

\* Mutant of CreateCableLine: only the missing route is refused.
CreateCableLineAnyLength(cable) ==
    IF ~Has(cable, "route") THEN Null
    ELSE [points |-> [i \in 1..Len(cable.route) |->
                         SnapToRadius(LatLngAltToVector3(cable.route[i].lat,
                                                         cable.route[i].lng, 0),
                                      CableRadius)],
          userData |-> cable,
          tag |-> CableTag(cable)]

\* createCableLine returns null for a missing route or one with fewer than 2 points
CreateCableLine(cable) ==
    IF ~Has(cable, "route") THEN Null
    ELSE IF Len(cable.route) < 2 THEN Null
    ELSE [points |-> [i \in 1..Len(cable.route) |->
                         SnapToRadius(LatLngAltToVector3(cable.route[i].lat,
                                                         cable.route[i].lng, 0),
                                      CableRadius)],
          userData |-> cable,
          tag |-> CableTag(cable)]

RECURSIVE AddCables(_, _, _)
\* the forEach of createCables
AddCables(s, cables, g) ==
    IF cables = <<>> THEN g
    ELSE IF ~s.showCables THEN AddCables(s, Tail(cables), g)
    ELSE LET cableLine == CreateCableLine(Head(cables))
         IN IF cableLine # Null
            THEN AddCables(s, Tail(cables),
                     [g EXCEPT !.scene = @ (+) One(cableLine.tag),
                               !.cableLines = Append(@, cableLine)])
            ELSE AddCables(s, Tail(cables), g)

CreateCables(s, cd, g) ==
    IF cd = Null \/ ~Has(cd, "cables") THEN g
    ELSE AddCables(s, cd.cables, g)


----------------------------------------------------------------------------
(* The frame: animate() *)

OrZero(r, f) == IF Has(r, f) THEN r[f] ELSE 0

\* index of a reference in an array, 0 when absent
IndexOf(refs, r) ==
    IF \E i \in 1..Len(refs) : refs[i] = r
    THEN CHOOSE i \in 1..Len(refs) : refs[i] = r
    ELSE 0

\* earth.rotation.y * 57.2958, in angle units
RotationDegrees(rot) == rot * RotationPerFrame

\* Mutant of GroundPosition: the rotation is left out of the longitude.
GroundPositionUnrotated(userData, rot) ==
    LET alt == OrZero(userData, "alt")
        newPos == LatLngAltToVector3(OrZero(userData, "lat"), OrZero(userData, "lng"), alt)
    IN IF alt = 0 THEN SnapToRadius(newPos, SurfaceRadius) ELSE newPos

\* where the frame puts a ground item once the globe has turned by rot frames
GroundPosition(userData, rot) ==
    LET lat == OrZero(userData, "lat")
        lng == OrZero(userData, "lng")
        alt == OrZero(userData, "alt")
        rotatedLng == lng + RotationDegrees(rot)
        newPos == LatLngAltToVector3(lat, rotatedLng, alt)
    IN IF alt = 0 THEN SnapToRadius(newPos, SurfaceRadius) ELSE newPos

\* whether the frame's equipment loop repositions the mesh
MovesWithEarth(v, mesh) == v # "v1" /\ ~mesh.userData.isSatellite

\* Mutant of FrameRotates: the frame of the first class, which never looks at
\* the flag.
FrameRotatesAlways(v, s) == TRUE

\* whether the frame advances the rotation and moves the objects
FrameRotates(v, s) == IF v = "v1" THEN TRUE ELSE s.isRotating

\* Mutant of AnimateFrame: the frame also stores the rotated longitude in the
\* element's userData.
AnimateFrameStoringLongitude(v, s, time, g, rot) ==
    IF ~FrameRotates(v, s) THEN [globe |-> g, rot |-> rot]
    ELSE LET rot2 == rot + 1
             moved == [r \in DOMAIN g.meshes |->
                          LET m == g.meshes[r]
                              i == IndexOf(g.satellites, r)
                              m1 == IF i # 0
                                    THEN [m EXCEPT !.position = OrbitPosition(time, i - 1)]
                                    ELSE m
                          IN IF IndexOf(g.equipment, r) # 0 /\ MovesWithEarth(v, m1)
                             THEN [m1 EXCEPT !.position = GroundPosition(m1.userData, rot2),
                                             !.userData.lng =
                                                 (OrZero(m1.userData, "lng") + RotationPerFrame)
                                                     % FullTurn]
                             ELSE m1]
         IN [globe |-> [g EXCEPT !.meshes = moved], rot |-> rot2]

\* the body of animate() before the render call
AnimateFrame(v, s, time, g, rot) ==
    IF ~FrameRotates(v, s) THEN [globe |-> g, rot |-> rot]
    ELSE LET rot2 == rot + 1
             moved == [r \in DOMAIN g.meshes |->
                          LET m == g.meshes[r]
                              i == IndexOf(g.satellites, r)
                              m1 == IF i # 0
                                    THEN [m EXCEPT !.position = OrbitPosition(time, i - 1)]
                                    ELSE m
                          IN IF IndexOf(g.equipment, r) # 0 /\ MovesWithEarth(v, m1)
                             THEN [m1 EXCEPT !.position = GroundPosition(m1.userData, rot2)]
                             ELSE m1]
         IN [globe |-> [g EXCEPT !.meshes = moved], rot |-> rot2]

----------------------------------------------------------------------------
(* Counters, zoom *)

CountShown(seq, Test(_)) == Len(SelectSeq(seq, Test))

UpdateCounters(v, s, nd, g) ==
    IF v = "v2"
    THEN [elementCount |-> Len(g.equipment),
          connectionCount |-> Len(g.connections) + Len(g.cableLines)]
    ELSE [elementCount |->
              IF nd # Null /\ Has(nd, "elements")
              THEN CountShown(nd.elements, LAMBDA e : ShouldShowElement(v, s, e)) ELSE 0,
          connectionCount |->
              IF nd # Null /\ Has(nd, "connections")
              THEN CountShown(nd.connections, LAMBDA c : ShouldShowConnection(s, c)) ELSE 0]

TargetDistance(zoomLevel) ==
    MinDistance * Milli
        + ((MaxDistance - MinDistance) * Milli * (Percent - zoomLevel)) \div Percent

Abs(x) == IF x < 0 THEN -x ELSE x

UpdateZoom(v, zoomLevel, cam) ==
    LET targetDistance == TargetDistance(zoomLevel)
    IN IF v = "v2" THEN [cam EXCEPT !.z = targetDistance]
       ELSE [z |-> IF Abs(cam.z - targetDistance) > Milli THEN targetDistance ELSE cam.z,
             minDistance |-> (targetDistance * 8) \div 10,
             maxDistance |-> (targetDistance * 12) \div 10]

----------------------------------------------------------------------------
(* class GlobeScene (static/js/globe.js 1548-2412) and the global functions *)
(* initGlobe and loadDemoData                                               *)

MaxSceneFrames == 3

\* the document of the global loadDemoData()
SceneDemoData ==
    [elements |->
        << [id |-> "1", type |-> "SATELLITE", latitude |-> Deg(40), longitude |-> Deg(-80),
            altitude |-> 550],
           [id |-> "2", type |-> "GROUND_STATION", latitude |-> 278779000,
            longitude |-> 188086500, altitude |-> 0],
           [id |-> "3", type |-> "ROUTER", latitude |-> 269522500, longitude |-> 137807500,
            altitude |-> 0],
           [id |-> "4", type |-> "SATELLITE", latitude |-> 0, longitude |-> Deg(-70),
            altitude |-> 36000] >>,
     connections |->
        << [id |-> "1", from_element |-> "1", to_element |-> "2", network_type |-> "EXISTING"],
           [id |-> "2", from_element |-> "2", to_element |-> "3", network_type |-> "EXISTING"],
           [id |-> "3", from_element |-> "4", to_element |-> "2", network_type |-> "PROPOSED"] >>]

\* the documents loadNetworkData is called with: the demo data, a document whose
\* link has an unknown end, a document without lists
ScenePayloads ==
    { SceneDemoData,
      [elements |-> << [id |-> "7", type |-> "GROUND_STATION", latitude |-> Deg(10),
                        longitude |-> Deg(20), altitude |-> 0] >>,
       connections |-> << [id |-> "9", from_element |-> "7", to_element |-> "8",
                           network_type |-> "PROPOSED"] >>],
      [name |-> "empty"] }

\* before initGlobe(): window.globeScene is undefined
NoGlobeScene ==
    [constructed |-> FALSE, env |-> "none", container |-> "canvas",
     isInitialized |-> FALSE, animationId |-> 0, scheduled |-> {}, frames |-> 0,
     children |-> {}, networkElements |-> <<>>, networkConnections |-> <<>>,
     selectedElement |-> NoSelection, autoRotate |-> TRUE, destroyed |-> FALSE]

\* Mutant of InitGlobe: a failed WebGL check is reported through the generic
\* initialisation error.
InitGlobeOneMessage(env) ==
    /\ ~globeScene.constructed
    /\ globeScene' =
          IF env \in {"noWebGL", "noControls"}
          THEN [NoGlobeScene EXCEPT !.constructed = TRUE, !.env = env,
                                    !.container = "initError"]
          ELSE [NoGlobeScene EXCEPT !.constructed = TRUE, !.env = env,
                                    !.children = {[kind |-> "earth", key |-> "earth"]}, !.animationId = 1,
                                    !.scheduled = {1}, !.frames = 1, !.isInitialized = TRUE]
    /\ UNCHANGED <<window, networkGlobe, layerGlobe, z96aGlobe>>

\* initGlobe(): new GlobeScene(canvas, container), whose constructor runs init().
\* env is what the browser offers: WebGL and the scripts ("ok"), no WebGL, or
\* WebGL without the OrbitControls script, so that setupControls throws.  The
\* first child of the scene is the earth that createEarth adds.
InitGlobe(env) ==
    /\ ~globeScene.constructed
    /\ globeScene' =
          IF env = "noWebGL"
          THEN [NoGlobeScene EXCEPT !.constructed = TRUE, !.env = env,
                                    !.container = "webglError"]
          ELSE IF env = "noControls"
          THEN [NoGlobeScene EXCEPT !.constructed = TRUE, !.env = env,
                                    !.children = {[kind |-> "earth", key |-> "earth"]}, !.container = "initError"]
          ELSE [NoGlobeScene EXCEPT !.constructed = TRUE, !.env = env,
                                    !.children = {[kind |-> "earth", key |-> "earth"]}, !.animationId = 1,
                                    !.scheduled = {1}, !.frames = 1, !.isInitialized = TRUE]
    /\ UNCHANGED <<window, networkGlobe, layerGlobe, z96aGlobe>>

\* GlobeScene.animate as a requestAnimationFrame callback: schedules the next
\* callback, keeps its handle, renders
SceneAnimate ==
    /\ globeScene.frames < MaxSceneFrames
    /\ \E id \in globeScene.scheduled :
          globeScene' = [globeScene EXCEPT !.animationId = id + 1,
                                           !.scheduled = (@ \ {id}) \cup {id + 1},
                                           !.frames = @ + 1]
    /\ UNCHANGED <<window, networkGlobe, layerGlobe, z96aGlobe>>

\* scene tags of the objects the two arrays hold
SceneObjects(gs) ==
    {ElementTag(gs.networkElements[i]) : i \in 1..Len(gs.networkElements)}
        \cup {[kind |-> "connection", key |-> gs.networkConnections[i].id] :
                 i \in {j \in 1..Len(gs.networkConnections) : gs.networkConnections[j].object3d}}

\* GlobeScene.loadNetworkData(networkData), with clearNetworkElements,
\* createNetworkElements and createNetworkConnections
SceneLoadNetworkData(doc) ==
    /\ globeScene.constructed
    /\ globeScene' =
          IF ~globeScene.isInitialized THEN globeScene
          ELSE LET els == IF Has(doc, "elements") THEN doc.elements ELSE <<>>
                   cns == IF Has(doc, "connections") THEN doc.connections ELSE <<>>
                   ids == {els[i].id : i \in 1..Len(els)}
                   built == [globeScene EXCEPT
                       !.networkElements =
                           [i \in 1..Len(els) |->
                               els[i] @@ [object3d |-> TRUE,
                                          coordinates |-> <<els[i].longitude, els[i].latitude,
                                                            els[i].altitude>>]],
                       !.networkConnections =
                           [i \in 1..Len(cns) |->
                               cns[i] @@ [object3d |-> (cns[i].from_element \in ids /\
                                                          cns[i].to_element \in ids),
                                          visible |-> TRUE]]]
               IN [built EXCEPT !.children =
                       (globeScene.children \ SceneObjects(globeScene)) \cup SceneObjects(built),
                                !.selectedElement = NoSelection]
    /\ UNCHANGED <<window, networkGlobe, layerGlobe, z96aGlobe>>

\* GlobeScene.filterConnections(networkType)
SceneFilterConnections(networkType) ==
    /\ globeScene.constructed
    /\ LET cns == globeScene.networkConnections
       IN globeScene' = [globeScene EXCEPT !.networkConnections =
             [i \in 1..Len(cns) |->
                 IF cns[i].object3d
                 THEN [cns[i] EXCEPT !.visible = (networkType = "all" \/
                                                     cns[i].network_type = networkType)]
                 ELSE cns[i]]]
    /\ UNCHANGED <<window, networkGlobe, layerGlobe, z96aGlobe>>

\* GlobeScene.onCanvasClick: the ray hits an element object (hit is its index)
\* or nothing (0)
SceneCanvasClick(hit) ==
    /\ globeScene.isInitialized
    /\ globeScene' = [globeScene EXCEPT !.selectedElement =
          IF hit = 0 THEN NoSelection ELSE globeScene.networkElements[hit].id]
    /\ UNCHANGED <<window, networkGlobe, layerGlobe, z96aGlobe>>

\* GlobeScene.toggleOrbit()
SceneToggleOrbit ==
    /\ globeScene.constructed
    /\ globeScene' = [globeScene EXCEPT !.autoRotate = ~@]
    /\ UNCHANGED <<window, networkGlobe, layerGlobe, z96aGlobe>>

\* Mutant of SceneDestroy: the pending frame is not cancelled.
SceneDestroyNotCancelling ==
    /\ globeScene.constructed
    /\ globeScene' = [globeScene EXCEPT !.children = {},
                                        !.isInitialized = FALSE,
                                        !.destroyed = TRUE]
    /\ UNCHANGED <<window, networkGlobe, layerGlobe, z96aGlobe>>

\* GlobeScene.destroy()
SceneDestroy ==
    /\ globeScene.constructed
    /\ globeScene' = [globeScene EXCEPT
          !.scheduled = IF globeScene.animationId # 0
                        THEN @ \ {globeScene.animationId} ELSE @,
          !.children = {},
          !.isInitialized = FALSE,
          !.destroyed = TRUE]
    /\ UNCHANGED <<window, networkGlobe, layerGlobe, z96aGlobe>>

----------------------------------------------------------------------------
(* class NetworkGlobe of staticfiles/js/globe3d_full.js (104-686): nodes and *)
(* connections kept in the layers existing and proposed                      *)

\* an object of a layer: createNetworkNodes and createNetworkConnections put
\* network_type 'proposed' in the proposed layer, hidden, and anything else in
\* the existing layer, visible
Layered(id, network_type) ==
    [id |-> id, network_type |-> network_type,
     layer |-> IF network_type = "proposed" THEN "proposed" ELSE "existing",
     visible |-> network_type # "proposed"]

\* createSampleNetwork
SampleNetwork ==
    [nodes |-> << Layered("Moscow", "existing"), Layered("Frankfurt", "existing"),
                  Layered("Singapore", "existing"), Layered("NewYork", "existing"),
                  Layered("Tokyo", "existing"), Layered("StarlinkGateway", "proposed"),
                  Layered("SUIRelayNode", "proposed") >>,
     connections |-> << Layered("Moscow-Frankfurt", "existing"),
                        Layered("Frankfurt-NewYork", "existing"),
                        Layered("Singapore-Tokyo", "existing"),
                        Layered("London-NewYork", "proposed") >>,
     equipment |-> 4]

\* what fetch('/static/data/network_data.json') brings: a rejection (the sample
\* network is built), or a document
LayerOutcomes ==
    { SampleNetwork,
      [nodes |-> << Layered("n1", "proposed"), Layered("n2", "hybrid") >>,
       connections |-> << Layered("n1-n2", "proposed"), Layered("n2-n1", "hybrid") >>,
       equipment |-> 0] }

NetworkTypes == {"existing", "proposed", "hybrid"}

\* after the constructor: config as written there, the request pending
NewLayerGlobe ==
    [loaded |-> FALSE, autoRotate |-> TRUE, showCables |-> TRUE, showEquipment |-> TRUE,
     currentNetwork |-> "existing", nodes |-> <<>>, connections |-> <<>>,
     equipment |-> <<>>]

\* loadNetworkData once the request has settled
LayerLoadNetworkData(data) ==
    /\ ~layerGlobe.loaded
    /\ layerGlobe' = [layerGlobe EXCEPT
          !.loaded = TRUE,
          !.nodes = data.nodes,
          !.connections = data.connections,
          !.equipment = [i \in 1..data.equipment |-> layerGlobe.showEquipment]]
    /\ UNCHANGED <<window, networkGlobe, globeScene, z96aGlobe>>

ToggleRotation ==
    /\ layerGlobe' = [layerGlobe EXCEPT !.autoRotate = ~@]
    /\ UNCHANGED <<window, networkGlobe, globeScene, z96aGlobe>>

ToggleEquipment ==
    /\ layerGlobe' = [layerGlobe EXCEPT
          !.showEquipment = ~@,
          !.equipment = [i \in 1..Len(@) |-> ~layerGlobe.showEquipment]]
    /\ UNCHANGED <<window, networkGlobe, globeScene, z96aGlobe>>

ToggleCables ==
    /\ layerGlobe' = [layerGlobe EXCEPT
          !.showCables = ~@,
          !.connections = [i \in 1..Len(@) |-> [@[i] EXCEPT !.visible = ~layerGlobe.showCables]]]
    /\ UNCHANGED <<window, networkGlobe, globeScene, z96aGlobe>>

\* switchNetwork: hide every layer, show the chosen one, both for 'hybrid'
\* (the hybrid layer itself is always empty)
SwitchNetwork(networkType) ==
    /\ LET Shown(seq) == [i \in 1..Len(seq) |->
                             [seq[i] EXCEPT !.visible = (networkType = "hybrid" \/
                                                           seq[i].layer = networkType)]]
       IN layerGlobe' = [layerGlobe EXCEPT !.nodes = Shown(@),
                                            !.connections = Shown(@),
                                            !.currentNetwork = networkType]
    /\ UNCHANGED <<window, networkGlobe, globeScene, z96aGlobe>>

----------------------------------------------------------------------------
(* class Z96AGlobe (static/js/globe3d.js)                                    *)

\* createDemoData: one node per city
CreateDemoData(type) ==
    LET cities == << "New York", "London", "Tokyo", "Moscow", "Singapore", "Sydney",
                     "Frankfurt", "Sao Paulo", "Mumbai", "Dubai" >>
    IN [i \in 1..Len(cities) |->
           [id |-> "demo_" \o type \o "_" \o cities[i], name |-> cities[i],
            network_type |-> type]]

\* the list addConnections draws
CityLinks ==
    << [from |-> "New York", to |-> "London", type |-> "submarine"],
       [from |-> "London", to |-> "Frankfurt", type |-> "terrestrial"],
       [from |-> "Tokyo", to |-> "Singapore", type |-> "submarine"],
       [from |-> "New York", to |-> "Sao Paulo", type |-> "submarine"],
       [from |-> "Dubai", to |-> "Mumbai", type |-> "terrestrial"],
       [from |-> "Sydney", to |-> "Singapore", type |-> "satellite"] >>

\* what fetch('/api/network/nodes') brings: a rejection, a body that is no
\* array, or an array of nodes
NodeOutcomes ==
    { Reject,
      Response(TRUE, ErrorBody),
      Response(TRUE, [list |-> << [id |-> "n1", name |-> "London", network_type |-> "proposed"],
                                  [id |-> "n2", name |-> "New York", network_type |-> "existing"],
                                  [id |-> "n3", name |-> "Frankfurt", network_type |-> "existing"] >>]) }

\* after the constructor: init() waits for the node request
NewZ96AGlobe == [phase |-> "loading", isRotating |-> TRUE, nodes |-> <<>>, connections |-> <<>>]

RECURSIVE AddNodes(_)
\* addNode for each record: the node mesh, then its glow mesh
AddNodes(list) ==
    IF list = <<>> THEN <<>>
    ELSE << Head(list) @@ [isGlow |-> FALSE, visible |-> TRUE],
            Head(list) @@ [isGlow |-> TRUE, visible |-> TRUE] >> \o AddNodes(Tail(list))

\* findNodeByName: index of the first mesh of that name that is no glow, 0 when none
FindNodeByName(nodes, name) ==
    LET hits == {i \in 1..Len(nodes) : nodes[i].name = name /\ ~nodes[i].isGlow}
    IN IF hits = {} THEN 0 ELSE CHOOSE i \in hits : \A j \in hits : i <= j

RECURSIVE AddCityLinks(_, _)
\* addConnection for each link: the line, and for a satellite link the sphere
\* of addDataFlow (an object with userData.curve)
AddCityLinks(nodes, links) ==
    IF links = <<>> THEN <<>>
    ELSE LET c == Head(links)
             fromNode == FindNodeByName(nodes, c.from)
             toNode == FindNodeByName(nodes, c.to)
             line == [from |-> fromNode, to |-> toNode, type |-> c.type, curve |-> FALSE,
                      visible |-> TRUE]
         IN (IF fromNode = 0 \/ toNode = 0 THEN <<>>
             ELSE IF c.type = "satellite" THEN << line, [line EXCEPT !.curve = TRUE] >>
             ELSE << line >>) \o AddCityLinks(nodes, Tail(links))

\* loadNetworkData once the request has settled, and the rest of init()
Z96ALoadNetworkData(outcome) ==
    /\ z96aGlobe.phase = "loading"
    /\ LET failed == outcome.kind = "reject" \/ ~Has(outcome.json, "list")
           Of(type) == IF failed THEN CreateDemoData(type)
                       ELSE SelectSeq(outcome.json.list, LAMBDA n : n.network_type = type)
           nodes == AddNodes(Of("existing") \o Of("proposed"))
       IN z96aGlobe' = [z96aGlobe EXCEPT !.phase = "ready", !.nodes = nodes,
                                         !.connections = AddCityLinks(nodes, CityLinks)]
    /\ UNCHANGED <<window, networkGlobe, globeScene, layerGlobe>>

\* toggleNetworkType: each node mesh, and the first glow mesh with its id
ToggleNetworkType(type) ==
    /\ LET nodes == z96aGlobe.nodes
           Show(i) == type = "hybrid" \/ nodes[i].network_type = type
           Glow(i) == LET g == {j \in 1..Len(nodes) : nodes[j].isGlow /\ nodes[j].id = nodes[i].id}
                      IN IF g = {} THEN 0 ELSE CHOOSE j \in g : \A k \in g : j <= k
           Owners(j) == {i \in 1..Len(nodes) : ~nodes[i].isGlow /\ Glow(i) = j}
       IN z96aGlobe' = [z96aGlobe EXCEPT !.nodes =
             [j \in 1..Len(nodes) |->
                 IF ~nodes[j].isGlow THEN [nodes[j] EXCEPT !.visible = Show(j)]
                 ELSE IF Owners(j) = {} THEN nodes[j]
                 ELSE [nodes[j] EXCEPT !.visible =
                          Show(CHOOSE i \in Owners(j) : \A k \in Owners(j) : k <= i)]]]
    /\ UNCHANGED <<window, networkGlobe, globeScene, layerGlobe>>

SetRotation(enabled) ==
    /\ z96aGlobe' = [z96aGlobe EXCEPT !.isRotating = enabled]
    /\ UNCHANGED <<window, networkGlobe, globeScene, layerGlobe>>

\* toggleLayer: the connection objects of one colour (one link type), or the
\* node meshes
ToggleLayer(layer, visible) ==
    /\ z96aGlobe' =
          IF layer = "nodes"
          THEN [z96aGlobe EXCEPT !.nodes =
                   [j \in 1..Len(@) |-> IF @[j].isGlow THEN @[j]
                                        ELSE [@[j] EXCEPT !.visible = visible]]]
          ELSE [z96aGlobe EXCEPT !.connections =
                   [j \in 1..Len(@) |->
                       IF @[j].type = layer /\ ~(layer = "terrestrial" /\ @[j].curve)
                       THEN [@[j] EXCEPT !.visible = visible] ELSE @[j]]]
    /\ UNCHANGED <<window, networkGlobe, globeScene, layerGlobe>>

----------------------------------------------------------------------------
(* State *)

\* the ids of the two sidebars
SidebarIds == {"news-sidebar", "comments-sidebar"}

InitialSettings ==
    [showExisting |-> TRUE, showProposed |-> TRUE, showSatellites |-> TRUE,
     showStations |-> TRUE, showRouters |-> TRUE, showCables |-> TRUE,
     zoomLevel |-> InitialZoom,
     \* v1 has no isRotating setting: its frame rotates unconditionally and nothing
     \* writes the field, which stays TRUE there
     isRotating |-> TRUE]

EmptyGlobe == [meshes |-> <<>>, satellites |-> <<>>, equipment |-> <<>>,
               connections |-> <<>>, cableLines |-> <<>>, scene |-> EmptyBag]

SetGlobe(g) ==
    /\ meshes' = g.meshes
    /\ satellites' = g.satellites
    /\ equipment' = g.equipment
    /\ connections' = g.connections
    /\ cableLines' = g.cableLines
    /\ scene' = g.scene

globeVars == <<meshes, satellites, equipment, connections, cableLines, scene>>

Init ==
    /\ variant \in Variants
    /\ pc = "fetchNetwork"
    /\ networkData = Null
    /\ cableData = Null
    /\ settings = InitialSettings
    /\ meshes = <<>>
    /\ satellites = <<>>
    /\ equipment = <<>>
    /\ connections = <<>>
    /\ cableLines = <<>>
    /\ scene = EmptyBag
    /\ earthRotation = 0
    /\ camera = [z |-> InitialCameraZ * Milli, minDistance |-> MinDistance * Milli,
                 maxDistance |-> MaxDistance * Milli]
    /\ selectedElement = NoSelection
    /\ counters = [elementCount |-> 0, connectionCount |-> 0]
    /\ animating = FALSE
    /\ lastFetch = "pending"
    /\ globeScene = NoGlobeScene
    /\ layerGlobe = NewLayerGlobe
    /\ z96aGlobe = NewZ96AGlobe
    /\ window =
          [\* main.js 743, 907: the chat connects as the page loads
           chat |-> [socket |-> "connecting", orphans |-> [connecting |-> 0, open |-> 0],
                     timers |-> 0, connectBtnDisabled |-> FALSE],
           \* a fresh browser profile: no item stored ("" stands for a missing item)
           localStorage |->
               [k \in {"sidebar-left-state", "sidebar-right-state", "news-sidebar-state",
                       "comments-sidebar-state", "z96a-wallet-address"} |-> ""],
           \* the sidebars as the markup gives them, before initSidebars
           sidebars |-> [id \in SidebarIds |-> [collapsed |-> FALSE, hidden |-> FALSE]],
           \* main.js wallet session: window.walletAddress, window.walletConnected and
           \* the position of the connectWallet and disconnectWallet calls in flight
           wallet |-> [walletAddress |-> "", walletConnected |-> FALSE,
                       connecting |-> "idle", disconnecting |-> FALSE],
           \* a function wrapped by debounce(func, DebounceWait): the clock, the timer
           \* that timeout refers to (due < 0: none) with the arguments its closure
           \* holds, and what the callers and func have seen
           debounce |-> [now |-> 0, timeout |-> [due |-> -1, args |-> ""],
                         lastCall |-> [at |-> -1, args |-> ""], bursts |-> 0,
                         burstStart |-> -1, runs |-> 0,
                         lastRun |-> [at |-> -1, args |-> "", callAt |-> -1,
                                      callArgs |-> "", burstStart |-> -1]],
           \* news.js 4-19: a NewsManager whose constructor has called init(), which is
           \* parked in its first loadArticles(); articles is the number of articles of
           \* each source, fetches the requests in flight, view what #newsContent shows
           news |-> [articles |-> [habr |-> 0, twitter |-> 0, reddit |-> 0],
                     currentSource |-> "all", currentPage |-> 1, isLoading |-> TRUE,
                     fetches |-> 1, initialised |-> FALSE,
                     view |-> [kind |-> "loading", totalPages |-> 0]],
           \* staticfiles/js/wallet.js 4-23: a WalletManager on a fresh profile, with
           \* the localStorage items z96a_wallet_address and z96a_user_nickname ("" for
           \* null), the await connect() is parked at, and, for the properties, how
           \* the last connect() ended and what the state was when it was called
           walletManager |-> [wallet |-> "", userProfile |-> "", savedWallet |-> "",
                              savedNickname |-> "", connecting |-> "idle",
                              lastConnect |-> "none",
                              before |-> [wallet |-> "", userProfile |-> "",
                                          savedWallet |-> "", savedNickname |-> ""]],
           \* globe_main.js 135-139: the OrbitControls limits after initGlobe(), in
           \* 1/Milli, and whether setupControls() has added its listeners
           globeMain |-> [minDistance |-> 8 * Milli, maxDistance |-> 50 * Milli,
                          controlsSetUp |-> FALSE]]

----------------------------------------------------------------------------
(* init() *)

\* what the try/catch of loadNetworkData leaves: the data, or the error it throws
LoadNetworkDataResult(v, outcome) ==
    IF outcome.kind = "reject" \/ outcome.json = NotJson
    THEN IF HasLoadDemoData(v)
         THEN [threw |-> FALSE, data |-> LoadDemoData(v)]
         ELSE [threw |-> TRUE, data |-> Null]
    ELSE [threw |-> FALSE, data |-> outcome.json]

\* what the try/catch of loadCableData leaves in this.cableData
LoadCableDataResult(v, outcome) ==
    IF v = "v2"
    THEN IF outcome.kind = "reject" \/ outcome.json = NotJson THEN EmptyCables
         ELSE IF outcome.json = Null \/ ~Has(outcome.json, "cables") THEN EmptyCables
         ELSE outcome.json
    ELSE IF outcome.kind = "reject" THEN DemoCablesP2
         ELSE IF ~outcome.ok \/ outcome.json = NotJson THEN DemoCablesP2
         ELSE outcome.json

\* init() after its last await: setupScene ... animate, updateCounters
RestOfInit(v, s, nd, cd, time) ==
    IF CreateNetworkElementsThrows(nd)
    THEN /\ pc' = "failed"
         /\ UNCHANGED <<globeVars, earthRotation, counters, animating>>
    ELSE LET g1 == CreateNetworkElements(v, s, nd, EmptyGlobe)
             g2 == IF v = "v2" THEN CreateCables(s, cd, g1) ELSE g1
             f == AnimateFrame(v, s, time, g2, 0)
         IN /\ pc' = "running"
            /\ SetGlobe(f.globe)
            /\ earthRotation' = f.rot
            /\ animating' = TRUE
            /\ counters' = UpdateCounters(v, s, nd, f.globe)

FetchKind(outcome) ==
    IF outcome.kind = "reject" THEN "rejected"
    ELSE IF ~outcome.ok THEN "httpError"
    ELSE IF outcome.json = NotJson THEN "notJson"
    ELSE IF outcome.json = Null \/ ~Has(outcome.json, "elements") THEN "noElements"
    ELSE "ok"

LoadNetworkData(outcome, time) ==
    /\ pc = "fetchNetwork"
    /\ lastFetch' = FetchKind(outcome)
    /\ LET r == LoadNetworkDataResult(variant, outcome) IN
         /\ networkData' = r.data
         /\ IF r.threw
            THEN /\ pc' = "failed"
                 /\ UNCHANGED <<globeVars, earthRotation, counters, animating>>
            ELSE IF variant = "v1"
            THEN RestOfInit(variant, settings, r.data, cableData, time)
            ELSE /\ pc' = "fetchCables"
                 /\ UNCHANGED <<globeVars, earthRotation, counters, animating>>
    /\ UNCHANGED <<window, otherGlobes, variant, cableData, settings, camera, selectedElement>>

LoadCableData(outcome, time) ==
    /\ pc = "fetchCables"
    /\ LET cd == LoadCableDataResult(variant, outcome) IN
         /\ cableData' = cd
         /\ RestOfInit(variant, settings, networkData, cd, time)
    /\ UNCHANGED <<window, otherGlobes, variant, networkData, settings, camera, selectedElement, lastFetch>>

----------------------------------------------------------------------------
(* Event handlers *)

UpdateNetworkView(v, s, nd, cd, g) ==
    IF v = "v2"
    THEN CreateCables(s, cd, CreateNetworkElements(v, s, nd, ClearNetworkElements(v, g)))
    ELSE CreateNetworkElements(v, s, nd, g)

\* a handler that writes the settings and calls updateNetworkView
FilterChange(s) ==
    /\ pc = "running"
    /\ LET g == UpdateNetworkView(variant, s, networkData, cableData, Globe) IN
         /\ BagCardinality(g.scene) <= MaxSceneObjects
         /\ SetGlobe(g)
         /\ counters' = UpdateCounters(variant, s, networkData, g)
    /\ settings' = s
    /\ UNCHANGED <<window, otherGlobes, variant, pc, networkData, cableData, earthRotation, camera,
                   selectedElement, animating, lastFetch>>

BtnExisting == FilterChange([settings EXCEPT !.showExisting = TRUE, !.showProposed = FALSE])
BtnProposed == FilterChange([settings EXCEPT !.showExisting = FALSE, !.showProposed = TRUE])
BtnBoth == FilterChange([settings EXCEPT !.showExisting = TRUE, !.showProposed = TRUE])
ChkSatellites(checked) == FilterChange([settings EXCEPT !.showSatellites = checked])
ChkStations(checked) == FilterChange([settings EXCEPT !.showStations = checked])
ChkRouters(checked) == FilterChange([settings EXCEPT !.showRouters = checked])
ChkCables(checked) == FilterChange([settings EXCEPT !.showCables = checked])
ChkProposed(checked) ==
    /\ variant # "v1"
    /\ FilterChange([settings EXCEPT !.showProposed = checked])

SetRotating(b) ==
    /\ pc = "running"
    /\ variant # "v1"
    /\ settings' = [settings EXCEPT !.isRotating = b]
    /\ UNCHANGED <<window, otherGlobes, variant, pc, networkData, cableData, globeVars, earthRotation, camera,
                   selectedElement, counters, animating, lastFetch>>

BtnRotate == SetRotating(TRUE)
BtnStop == SetRotating(FALSE)

ZoomSlider(value) ==
    /\ pc = "running"
    /\ settings' = [settings EXCEPT !.zoomLevel = value]
    /\ camera' = UpdateZoom(variant, value, camera)
    /\ UNCHANGED <<window, otherGlobes, variant, pc, networkData, cableData, globeVars, earthRotation,
                   selectedElement, counters, animating, lastFetch>>

\* canvas click on an element mesh: selectElement
ClickElement(r) ==
    /\ pc = "running"
    /\ IndexOf(Findable(variant, Globe), r) # 0
    /\ selectedElement' = meshes[r].userData.id
    /\ UNCHANGED <<window, otherGlobes, variant, pc, networkData, cableData, settings, globeVars, earthRotation,
                   camera, counters, animating, lastFetch>>

\* Mutant of ClickNothing: clearing the selection also stops the rotation.
ClickNothingStopping ==
    /\ pc = "running"
    /\ selectedElement' = NoSelection
    /\ settings' = [settings EXCEPT !.isRotating = FALSE]
    /\ UNCHANGED <<window, otherGlobes, variant, pc, networkData, cableData, globeVars, earthRotation,
                   camera, counters, animating, lastFetch>>

\* canvas click that hits nothing: clearSelection
ClickNothing ==
    /\ pc = "running"
    /\ selectedElement' = NoSelection
    /\ UNCHANGED <<window, otherGlobes, variant, pc, networkData, cableData, settings, globeVars, earthRotation,
                   camera, counters, animating, lastFetch>>

\* one requestAnimationFrame callback
Frame(time, maxTicks) ==
    /\ animating
    /\ earthRotation < maxTicks
    /\ LET f == AnimateFrame(variant, settings, time, Globe, earthRotation) IN
         /\ SetGlobe(f.globe)
         /\ earthRotation' = f.rot
    /\ UNCHANGED <<window, otherGlobes, variant, pc, networkData, cableData, settings, camera, selectedElement,
                   counters, animating, lastFetch>>

Tick == \E time \in Times : Frame(time, MaxTicks)

\* the frame again, for the long rotation run
TickRot == \E time \in Times : Frame(time, MaxRotTicks)

Loads ==
    \/ \E o \in NetworkOutcomes, time \in Times : LoadNetworkData(o, time)
    \/ \E o \in CableOutcomes, time \in Times : LoadCableData(o, time)

\* the topology request answered with the malformed batch
LoadsMalformed ==
    \/ \E time \in Times : LoadNetworkData(Response(TRUE, TopoMalformed), time)
    \/ \E o \in CableOutcomes, time \in Times : LoadCableData(o, time)

Filters ==
    \/ BtnExisting
    \/ BtnProposed
    \/ BtnBoth
    \/ \E b \in BOOLEAN : ChkSatellites(b)
    \/ \E b \in BOOLEAN : ChkStations(b)
    \/ \E b \in BOOLEAN : ChkRouters(b)
    \/ \E b \in BOOLEAN : ChkCables(b)
    \/ \E b \in BOOLEAN : ChkProposed(b)

Rotation ==
    \/ BtnRotate
    \/ BtnStop

View ==
    \/ \E z \in Zooms : ZoomSlider(z)
    \/ \E r \in 1..Len(meshes) : ClickElement(r)
    \/ ClickNothing

InitV2 == Init /\ variant = "v2"

\* the second class of globe.js: loading, every filter control, rotation, frames
NextV2 == Loads \/ Filters \/ Rotation \/ Tick
SpecV2 == InitV2 /\ [][NextV2]_vars

\* the second class of globe.js over a long rotation
NextRot == Loads \/ BtnExisting \/ BtnBoth \/ Rotation \/ TickRot
SpecRot == InitV2 /\ [][NextRot]_vars

\* the three copies: loading and every filter control
NextAll == Loads \/ Filters
SpecAll == Init /\ [][NextAll]_vars

\* the three copies: rotation control, frames, zoom, selection, network buttons
NextCtl == Loads \/ BtnExisting \/ BtnBoth \/ Rotation \/ View \/ Tick
SpecCtl == Init /\ [][NextCtl]_vars

\* the second class of globe.js given a batch with malformed records
NextBad == LoadsMalformed \/ Filters \/ Rotation \/ Tick
SpecBad == InitV2 /\ [][NextBad]_vars

\* the second class of globe.js left rotating for more than a full turn, with
\* both requests rejected (the sample satellite, no cables)
NextSpin ==
    \/ \E time \in Times : LoadNetworkData(Reject, time)
    \/ \E time \in Times : LoadCableData(Reject, time)
    \/ Rotation
    \/ \E time \in Times : Frame(time, MaxSpinTicks)
SpecSpin == InitV2 /\ [][NextSpin]_vars

\* the GlobeScene object: construction, frames, loads, connection filter, destroy
NextScene ==
    \/ \E env \in {"ok", "noWebGL", "noControls"} : InitGlobe(env)
    \/ SceneAnimate
    \/ \E doc \in ScenePayloads : SceneLoadNetworkData(doc)
    \/ \E t \in {"all", "EXISTING", "PROPOSED"} : SceneFilterConnections(t)
    \/ \E hit \in 0..Len(globeScene.networkElements) : SceneCanvasClick(hit)
    \/ SceneToggleOrbit
    \/ SceneDestroy
SpecScene == InitV2 /\ [][NextScene]_vars

\* the layered NetworkGlobe of globe3d_full.js: its load and its toggles
NextLayer ==
    \/ \E data \in LayerOutcomes : LayerLoadNetworkData(data)
    \/ ToggleRotation
    \/ ToggleEquipment
    \/ ToggleCables
    \/ \E t \in NetworkTypes : SwitchNetwork(t)
SpecLayer == InitV2 /\ [][NextLayer]_vars

\* the Z96AGlobe object: its load and its visibility methods
NextZ96A ==
    \/ \E o \in NodeOutcomes : Z96ALoadNetworkData(o)
    \/ \E t \in NetworkTypes : ToggleNetworkType(t)
    \/ \E b \in BOOLEAN : SetRotation(b)
    \/ \E l \in {"submarine", "terrestrial", "satellite", "nodes"}, b \in BOOLEAN :
          ToggleLayer(l, b)
SpecZ96A == InitV2 /\ [][NextZ96A]_vars

----------------------------------------------------------------------------
(* The chat of static/js/main.js 731-939.  window.chat.socket is the state  *)
(* of the WebSocket the variable socket refers to; orphans counts the       *)
(* sockets that are still connecting or open after the variable was         *)
(* overwritten (their handlers stay attached); timers counts the pending    *)
(* setTimeout(connectWebSocket, 3000) callbacks.                            *)

globes == <<networkGlobe, globeScene, layerGlobe, z96aGlobe>>

ConnectWebSocket(c) ==
    [c EXCEPT !.socket = "connecting",
              !.orphans = IF c.socket \in {"connecting", "open"}
                          THEN [@ EXCEPT ![c.socket] = @ + 1]
                          ELSE @]

LiveSockets(c) ==
    c.orphans.connecting + c.orphans.open
        + (IF c.socket \in {"connecting", "open"} THEN 1 ELSE 0)

\* click on #connect-btn: a disabled button fires no click
ClickConnect ==
    /\ ~window.chat.connectBtnDisabled
    /\ window.chat.socket # "open"
    /\ LiveSockets(window.chat) + window.chat.timers < MaxSockets
    /\ window' = [window EXCEPT !.chat = ConnectWebSocket(@)]
    /\ UNCHANGED globes

\* socket.onopen of the current socket (orphan = FALSE) or of an overwritten one
SocketOpen(orphan) ==
    /\ IF orphan THEN window.chat.orphans.connecting > 0
                 ELSE window.chat.socket = "connecting"
    /\ window' = [window EXCEPT
          !.chat = IF orphan
                   THEN [@ EXCEPT !.orphans = [connecting |-> @.connecting - 1,
                                               open |-> @.open + 1],
                                  !.connectBtnDisabled = TRUE]
                   ELSE [@ EXCEPT !.socket = "open", !.connectBtnDisabled = TRUE]]
    /\ UNCHANGED globes

SocketCloseGivingUp(orphan, state) ==
    /\ IF orphan THEN window.chat.orphans[state] > 0 ELSE window.chat.socket = state
    /\ window' = [window EXCEPT
          !.chat = [(IF orphan THEN [@ EXCEPT !.orphans[state] = @ - 1]
                               ELSE [@ EXCEPT !.socket = "closed"])
                    EXCEPT !.connectBtnDisabled = FALSE,
                           !.timers = IF @ = 0 THEN 1 ELSE @]]
    /\ UNCHANGED globes

\* socket.onclose of a socket that was connecting or open
SocketClose(orphan, state) ==
    /\ IF orphan THEN window.chat.orphans[state] > 0 ELSE window.chat.socket = state
    /\ window' = [window EXCEPT
          !.chat = [(IF orphan THEN [@ EXCEPT !.orphans[state] = @ - 1]
                               ELSE [@ EXCEPT !.socket = "closed"])
                    EXCEPT !.connectBtnDisabled = FALSE,
                           !.timers = @ + 1]]
    /\ UNCHANGED globes

\* a pending setTimeout(connectWebSocket, 3000) fires
ReconnectTimer ==
    /\ window.chat.timers > 0
    /\ window' = [window EXCEPT !.chat = ConnectWebSocket([@ EXCEPT !.timers = @ - 1])]
    /\ UNCHANGED globes

NextChat ==
    \/ ClickConnect
    \/ \E orphan \in BOOLEAN : SocketOpen(orphan)
    \/ \E orphan \in BOOLEAN, state \in {"connecting", "open"} : SocketClose(orphan, state)
    \/ ReconnectTimer
\* the event loop runs every timer callback that is due
SpecChat == InitV2 /\ [][NextChat]_vars /\ WF_vars(ReconnectTimer)

----------------------------------------------------------------------------
(* The sidebars and the wallet session of static/js/main.js 10-337, with    *)
(* the localStorage items they read and write.                              *)

\* the page is loaded again: the markup, then initSidebars and initWalletConnection;
\* the calls that were in flight are gone with the old page
PageLoad ==
    /\ window' = [window EXCEPT
          !.sidebars =
              [id \in SidebarIds |->
                  [collapsed |->
                       \/ id = "news-sidebar"
                             /\ window.localStorage["sidebar-left-state"] = "collapsed"
                       \/ id = "comments-sidebar"
                             /\ window.localStorage["sidebar-right-state"] = "collapsed",
                   hidden |-> FALSE]],
          !.wallet = [walletAddress |-> window.localStorage["z96a-wallet-address"],
                      walletConnected |-> window.localStorage["z96a-wallet-address"] # "",
                      connecting |-> "idle", disconnecting |-> FALSE]]
    /\ UNCHANGED globes

ToggleSidebar(sidebarId) ==
    /\ window' = [window EXCEPT
          !.sidebars[sidebarId].collapsed = ~@,
          !.localStorage[sidebarId \o "-state"] =
              IF window.sidebars[sidebarId].collapsed THEN "expanded" ELSE "collapsed"]
    /\ UNCHANGED globes

CloseSidebar(sidebarId) ==
    /\ window' = [window EXCEPT
          !.sidebars[sidebarId].hidden = TRUE,
          !.localStorage[sidebarId \o "-state"] = "hidden"]
    /\ UNCHANGED globes

\* connectWallet() up to its first await (window.solana is present)
ConnectWallet ==
    /\ window.wallet.connecting = "idle"
    /\ window' = [window EXCEPT !.wallet.connecting = "solana.connect"]
    /\ UNCHANGED globes

\* connectWallet() resumes after the await it is parked at; ok tells whether
\* window.solana.connect() resolved, with the address "publicKey" (getUserInfo and registerWalletConnection
\* catch their own errors and always resolve)
ConnectWalletResumes(ok) ==
    /\ window.wallet.connecting # "idle"
    /\ window' =
          CASE window.wallet.connecting = "solana.connect" /\ ok ->
                 [window EXCEPT !.wallet.walletAddress = "publicKey",
                                !.wallet.walletConnected = TRUE,
                                !.wallet.connecting = "getUserInfo"]
            [] window.wallet.connecting = "solana.connect" /\ ~ok ->
                 [window EXCEPT !.wallet.connecting = "idle"]
            [] window.wallet.connecting = "getUserInfo" ->
                 [window EXCEPT !.localStorage["z96a-wallet-address"] = "publicKey",
                                !.wallet.connecting = "registerWalletConnection"]
            [] window.wallet.connecting = "registerWalletConnection" ->
                 [window EXCEPT !.wallet.connecting = "idle"]
    /\ UNCHANGED globes

\* disconnectWallet() up to await window.solana.disconnect()
DisconnectWallet ==
    /\ ~window.wallet.disconnecting
    /\ window' = [window EXCEPT !.wallet.disconnecting = TRUE]
    /\ UNCHANGED globes

\* disconnectWallet() resumes; a rejected solana.disconnect() goes to the catch
DisconnectWalletResumes(ok) ==
    /\ window.wallet.disconnecting
    /\ window' =
          IF ok THEN [window EXCEPT !.wallet.walletConnected = FALSE,
                                    !.wallet.walletAddress = "",
                                    !.localStorage["z96a-wallet-address"] = "",
                                    !.wallet.disconnecting = FALSE]
                ELSE [window EXCEPT !.wallet.disconnecting = FALSE]
    /\ UNCHANGED globes

NextPage ==
    \/ PageLoad
    \/ \E id \in SidebarIds : ToggleSidebar(id) \/ CloseSidebar(id)
    \/ ConnectWallet
    \/ \E ok \in BOOLEAN : ConnectWalletResumes(ok)
    \/ DisconnectWallet
    \/ \E ok \in BOOLEAN : DisconnectWalletResumes(ok)
SpecPage == InitV2 /\ [][NextPage]_vars

----------------------------------------------------------------------------
(* debounce of static/js/main.js 691-701 (the same text as part_002         *)
(* 1212-1222).  Time is counted in ticks; a timer callback runs at the tick *)
(* it is due, after the calls made at that tick.                            *)

ExecutedFunctionKeepingTimer(args) ==
    /\ window' = [window EXCEPT
          !.debounce.timeout = IF @.due >= 0 THEN @
                               ELSE [due |-> window.debounce.now + DebounceWait,
                                     args |-> args],
          !.debounce.lastCall = [at |-> window.debounce.now, args |-> args],
          !.debounce.bursts = IF window.debounce.timeout.due < 0 THEN @ + 1 ELSE @,
          !.debounce.burstStart =
              IF window.debounce.timeout.due < 0 THEN window.debounce.now ELSE @]
    /\ UNCHANGED globes

\* one call of the wrapped function: clearTimeout(timeout), then a new timer
ExecutedFunction(args) ==
    /\ window' = [window EXCEPT
          !.debounce.timeout = [due |-> window.debounce.now + DebounceWait, args |-> args],
          !.debounce.lastCall = [at |-> window.debounce.now, args |-> args],
          !.debounce.bursts = IF window.debounce.timeout.due < 0 THEN @ + 1 ELSE @,
          !.debounce.burstStart =
              IF window.debounce.timeout.due < 0 THEN window.debounce.now ELSE @]
    /\ UNCHANGED globes

\* the timer callback: later()
Later ==
    /\ window.debounce.timeout.due >= 0
    /\ window.debounce.timeout.due <= window.debounce.now
    /\ window' = [window EXCEPT
          !.debounce.timeout = [due |-> -1, args |-> ""],
          !.debounce.runs = @ + 1,
          !.debounce.lastRun = [at |-> window.debounce.now,
                                args |-> window.debounce.timeout.args,
                                callAt |-> window.debounce.lastCall.at,
                                callArgs |-> window.debounce.lastCall.args,
                                burstStart |-> window.debounce.burstStart]]
    /\ UNCHANGED globes

\* a tick of the clock; a timer that is due runs before the clock moves on
TimePasses ==
    /\ window.debounce.now < MaxTime
    /\ ~(window.debounce.timeout.due >= 0
            /\ window.debounce.timeout.due <= window.debounce.now)
    /\ window' = [window EXCEPT !.debounce.now = @ + 1]
    /\ UNCHANGED globes

NextDebounce ==
    \/ \E args \in {"a", "b"} : ExecutedFunction(args)
    \/ Later
    \/ TimePasses
SpecDebounce == InitV2 /\ [][NextDebounce]_vars

----------------------------------------------------------------------------
(* NewsManager of staticfiles/js/news.js *)

\* the length of filterArticles()
FilterArticles(n) ==
    IF n.currentSource = "all"
    THEN n.articles.habr + n.articles.twitter + n.articles.reddit
    ELSE n.articles[n.currentSource]

\* the length of articles.slice(startIndex, endIndex) for a list of that length
PaginateArticles(n, length) ==
    LET startIndex == (n.currentPage - 1) * ArticlesPerPage
        endIndex == startIndex + ArticlesPerPage
        from == IF startIndex < 0 THEN (IF length + startIndex < 0 THEN 0
                                        ELSE length + startIndex)
                ELSE (IF startIndex > length THEN length ELSE startIndex)
        to == IF endIndex < 0 THEN (IF length + endIndex < 0 THEN 0 ELSE length + endIndex)
              ELSE (IF endIndex > length THEN length ELSE endIndex)
    IN IF to > from THEN to - from ELSE 0

\* renderNewsPanel(): the empty notice, or the page and (for more than one page)
\* the pagination with Math.ceil(length / articlesPerPage) pages
RenderNewsPanel(n) ==
    LET length == FilterArticles(n) IN
    [n EXCEPT !.view =
        IF PaginateArticles(n, length) = 0 THEN [kind |-> "empty", totalPages |-> 0]
        ELSE [kind |-> "list",
              totalPages |-> IF length > ArticlesPerPage
                             THEN (length + ArticlesPerPage - 1) \div ArticlesPerPage
                             ELSE 0]]

LoadArticlesUnguarded ==
    /\ window' = [window EXCEPT !.news = [@ EXCEPT !.isLoading = TRUE,
                                                   !.fetches = @ + 1,
                                                   !.view = [kind |-> "loading",
                                                             totalPages |-> 0]]]
    /\ UNCHANGED globes

\* loadArticles() up to await fetch: from the refresh button at any time, from
\* the 5-minute interval once init() has set it up
LoadArticles ==
    /\ window' = [window EXCEPT !.news =
          IF @.isLoading THEN @
          ELSE [@ EXCEPT !.isLoading = TRUE, !.fetches = @ + 1,
                         !.view = [kind |-> "loading", totalPages |-> 0]]]
    /\ UNCHANGED globes

\* loadArticles() after its awaits: data is the article list of the answer, or
\* Reject for a failed request or body; the first load lets init() go on to
\* renderNewsPanel() and the listeners
LoadArticlesResumes(data) ==
    /\ window.news.fetches > 0
    /\ LET loaded == IF data = Reject
                     THEN [window.news EXCEPT
                             !.view = [kind |-> "error", totalPages |-> 0],
                             !.articles = [habr |-> 2, twitter |-> 2, reddit |-> 1]]
                     ELSE RenderNewsPanel([window.news EXCEPT !.articles = data.articles])
           done == [loaded EXCEPT !.isLoading = FALSE, !.fetches = @ - 1]
       IN window' = [window EXCEPT !.news =
             IF window.news.initialised THEN done
             ELSE RenderNewsPanel([done EXCEPT !.initialised = TRUE])]
    /\ UNCHANGED globes

\* click on a button of the pagination that the last render produced
PaginationClick(btn, page) ==
    /\ window.news.view.kind = "list"
    /\ window.news.view.totalPages > 0
    /\ CASE btn = "page-number" ->
               /\ page \in 1..window.news.view.totalPages
               /\ page # window.news.currentPage
               /\ \/ page = 1
                  \/ page = window.news.view.totalPages
                  \/ (page >= window.news.currentPage - 1
                        /\ page <= window.news.currentPage + 1)
               /\ window' = [window EXCEPT
                     !.news = RenderNewsPanel([@ EXCEPT !.currentPage = page])]
         [] btn = "prev-btn" ->
               /\ window.news.currentPage > 1
               /\ window' = [window EXCEPT
                     !.news = RenderNewsPanel([@ EXCEPT !.currentPage = @ - 1])]
         [] btn = "next-btn" ->
               /\ window.news.currentPage < window.news.view.totalPages
               /\ window' = [window EXCEPT
                     !.news = RenderNewsPanel([@ EXCEPT !.currentPage = @ + 1])]
    /\ UNCHANGED globes

\* click on a .source-filter button
SourceFilterClick(source) ==
    /\ window.news.initialised
    /\ source # window.news.currentSource
    /\ window' = [window EXCEPT
          !.news = RenderNewsPanel([@ EXCEPT !.currentSource = source,
                                            !.currentPage = 1])]
    /\ UNCHANGED globes

SpecNews ==
    InitV2 /\ [][\/ LoadArticles
                 \/ \E data \in {Reject,
                                  [articles |-> [habr |-> 0, twitter |-> 0, reddit |-> 0]],
                                  [articles |-> [habr |-> 8, twitter |-> 4, reddit |-> 0]],
                                  [articles |-> [habr |-> 3, twitter |-> 12, reddit |-> 1]],
                                  [articles |-> [habr |-> 25, twitter |-> 10, reddit |-> 0]]} :
                        LoadArticlesResumes(data)
                 \/ \E btn \in {"page-number", "prev-btn", "next-btn"}, page \in 1..4 :
                        PaginationClick(btn, page)
                 \/ \E source \in {"all", "twitter", "reddit", "habr"} :
                        SourceFilterClick(source)]_vars

----------------------------------------------------------------------------
(* WalletManager of staticfiles/js/wallet.js.  userProfile is the nickname  *)
(* of the profile ("" for null); the server names an address "nick-" and    *)
(* the address.                                                             *)

\* connect() up to await this.provider.connect() (window.solana is present)
Connect ==
    /\ window.walletManager.connecting = "idle"
    /\ LET m == window.walletManager IN
       window' = [window EXCEPT !.walletManager =
          [m EXCEPT !.connecting = "provider.connect",
                    !.lastConnect = "none",
                    !.before = [wallet |-> m.wallet, userProfile |-> m.userProfile,
                                savedWallet |-> m.savedWallet,
                                savedNickname |-> m.savedNickname]]]
    /\ UNCHANGED globes

\* connect() resumes: provider.connect() answers an address or rejects, then
\* verifyWalletOnServer() ends with data.success or throws
ConnectResumes(outcome) ==
    /\ window.walletManager.connecting # "idle"
    /\ LET m == window.walletManager IN
       window' = [window EXCEPT !.walletManager =
          CASE m.connecting = "provider.connect" /\ outcome \in {"A", "B"} ->
                 [m EXCEPT !.wallet = outcome, !.savedWallet = outcome,
                           !.connecting = "verifyWalletOnServer"]
            [] m.connecting = "verifyWalletOnServer" /\ outcome = "success" ->
                 [m EXCEPT !.userProfile = "nick-" \o m.wallet,
                           !.savedNickname = "nick-" \o m.wallet,
                           !.connecting = "idle", !.lastConnect = "connected"]
            [] OTHER ->
                 [m EXCEPT !.connecting = "idle", !.lastConnect = "failed"]]
    /\ UNCHANGED globes

\* disconnect(), with provider.disconnect() resolving (ok) or rejecting
Disconnect(ok) ==
    /\ window.walletManager.connecting = "idle"
    /\ window' = [window EXCEPT !.walletManager =
          IF ok THEN [@ EXCEPT !.wallet = "", !.userProfile = "", !.savedWallet = "",
                               !.savedNickname = "", !.lastConnect = "none"]
                ELSE [@ EXCEPT !.lastConnect = "none"]]
    /\ UNCHANGED globes

\* the page is loaded again: a new WalletManager and its checkSavedConnection()
CheckSavedConnection ==
    /\ LET m == window.walletManager
           restore == m.savedWallet # "" /\ m.savedNickname # ""
       IN window' = [window EXCEPT !.walletManager =
             [m EXCEPT !.wallet = IF restore THEN m.savedWallet ELSE "",
                       !.userProfile = IF restore THEN m.savedNickname ELSE "",
                       !.connecting = "idle", !.lastConnect = "none"]]
    /\ UNCHANGED globes

SpecWallet ==
    InitV2 /\ [][\/ Connect
                 \/ \E outcome \in {"A", "B", "reject", "success"} : ConnectResumes(outcome)
                 \/ \E ok \in BOOLEAN : Disconnect(ok)
                 \/ CheckSavedConnection]_vars

----------------------------------------------------------------------------
(* The global-function globe of static/js/globe_main.js: its zoom *)

\* zoomMap of setZoom, in scene units; 0 for a level it does not hold
ZoomMap(level) ==
    CASE level = 1 -> 30 [] level = 2 -> 25 [] level = 3 -> 20 [] level = 4 -> 15
      [] level = 5 -> 10 [] level = 6 -> 8 [] level = 7 -> 6 [] level = 8 -> 5
      [] level = 9 -> 4 [] level = 10 -> 3 [] OTHER -> 0

\* setZoom(level) on the controls c
SetZoom(c, level) ==
    IF ZoomMap(level) # 0 THEN [c EXCEPT !.maxDistance = ZoomMap(level) * Milli] ELSE c

\* a call of window.setZoom(level)
SetZoomCall(level) ==
    /\ window' = [window EXCEPT !.globeMain = SetZoom(@, level)]
    /\ UNCHANGED globes

\* a call of setupControls(), which adds a second input listener to #zoom
SetupControlsCall ==
    /\ ~window.globeMain.controlsSetUp
    /\ window' = [window EXCEPT !.globeMain.controlsSetUp = TRUE]
    /\ UNCHANGED globes

\* input on the #zoom slider: the listener of the DOMContentLoaded handler,
\* then the listener of setupControls if it was added
ZoomInput(zoomLevel) ==
    /\ window' = [window EXCEPT !.globeMain =
          IF @.controlsSetUp
          THEN [@ EXCEPT !.maxDistance = 30 * Milli - zoomLevel * 2 * Milli,
                         !.minDistance = 3 * Milli + (zoomLevel * Milli) \div 2]
          ELSE SetZoom(@, zoomLevel)]
    /\ UNCHANGED globes

SpecGlobeMain ==
    InitV2 /\ [][\/ \E level \in 0..11 : SetZoomCall(level)
                 \/ SetupControlsCall
                 \/ \E zoomLevel \in 1..10 : ZoomInput(zoomLevel)]_vars

----------------------------------------------------------------------------
(* What is rendered *)

Running == pc = "running"

SceneKeys(kind) == {t.key : t \in {x \in BagToSet(scene) : x.kind = kind}}

\* ids of the element meshes in this.equipment
EquipmentIds == {meshes[equipment[i]].userData.id : i \in 1..Len(equipment)}

Range(seq) == {seq[i] : i \in 1..Len(seq)}

RECURSIVE SeqToBag(_)
SeqToBag(seq) == IF seq = <<>> THEN EmptyBag ELSE One(Head(seq)) (+) SeqToBag(Tail(seq))

HasElements(nd) == nd # Null /\ Has(nd, "elements")

----------------------------------------------------------------------------
(* C1: in the second class, every rendered connection line has both its     *)
(* 'from' and its 'to' element among the rendered elements, after loading   *)
(* and after every filter change; with A (existing router), B (proposed     *)
(* satellite) and the link A-B, showProposed = false leaves A rendered and  *)
(* the link A-B excluded.                                                   *)

C1_EndpointsRendered ==
    /\ \A i \in 1..Len(connections) :
          /\ connections[i].conn.from \in SceneKeys("element")
          /\ connections[i].conn.to \in SceneKeys("element")
          /\ connections[i].conn.from \in EquipmentIds
          /\ connections[i].conn.to \in EquipmentIds
    /\ SceneKeys("connection") = {connections[i].tag.key : i \in 1..Len(connections)}
    /\ (Running /\ networkData = TopoAB /\ ~settings.showProposed
          /\ settings.showExisting /\ settings.showRouters)
         => /\ "A" \in SceneKeys("element")
            /\ "B" \notin SceneKeys("element")
            /\ ConnectionTag(Conn("A", "B", "satellite_link")).key \notin SceneKeys("connection")

C1_Witness ==
    /\ Running
    /\ networkData = TopoAB
    /\ ~settings.showProposed
    /\ "A" \in SceneKeys("element")
    /\ ConnectionTag(Conn("A", "S", "fiber")).key \in SceneKeys("connection")
    /\ ConnectionTag(Conn("A", "B", "satellite_link")).key \notin SceneKeys("connection")

----------------------------------------------------------------------------
(* C2: an element is rendered if and only if the toggle of its network      *)
(* class is on and the toggle of its own type category is on (showSatellites*)
(* for satellites, showStations for ground stations, showRouters for        *)
(* routers).                                                                *)

ClassOn(s, e) ==
    CASE e.network = "existing" -> s.showExisting
      [] e.network = "proposed" -> s.showProposed
      [] OTHER -> TRUE

CategoryOn(s, e) ==
    CASE e.type = "satellite" -> s.showSatellites
      [] e.type = "ground_station" -> s.showStations
      [] e.type = "router" -> s.showRouters
      [] OTHER -> TRUE

C2_FilterConjunction ==
    (Running /\ HasElements(networkData)) =>
        \A i \in 1..Len(networkData.elements) :
            LET e == networkData.elements[i] IN
            e.type \in {"satellite", "ground_station", "router"} =>
                (e.id \in SceneKeys("element") <=> (ClassOn(settings, e) /\ CategoryOn(settings, e)))

----------------------------------------------------------------------------
(* C3: when the topology request rejects, loadNetworkData does not throw,   *)
(* networkData holds the sample dataset and init goes on to build the scene *)
(* and start the animation loop.                                            *)

C3_RejectFallsBack ==
    lastFetch = "rejected" =>
        /\ pc # "failed"
        /\ networkData \in {DemoDataV1, DemoDataV2}
        /\ (pc = "running" => animating)

----------------------------------------------------------------------------
(* C4: when the topology response has a non-2xx status, or parses but has no*)
(* elements list, loadNetworkData puts the sample dataset in place of the   *)
(* payload and no error reaches init or createNetworkElements.              *)

C4_BadResponseFallsBack ==
    lastFetch \in {"httpError", "noElements"} =>
        /\ pc # "failed"
        /\ networkData \in {DemoDataV1, DemoDataV2}

----------------------------------------------------------------------------
(* C5: in the second class the rendered elements, connections and cables    *)
(* are a function of the loaded topology, the loaded cables and the current *)
(* filter settings alone, whatever sequence of rebuilds led to the settings.*)

VisibleElements(nd, s) ==
    IF HasElements(nd) THEN SelectSeq(nd.elements, LAMBDA e : ClassOn(s, e) /\
             (CASE e.type = "core_router" -> s.showRouters [] OTHER -> CategoryOn(s, e)))
    ELSE <<>>

VisibleConnections(nd, s) ==
    IF nd # Null /\ Has(nd, "connections")
    THEN LET ids == {e.id : e \in Range(VisibleElements(nd, s))}
         IN SelectSeq(nd.connections,
                      LAMBDA c : s.showCables /\ c.from \in ids /\ c.to \in ids)
    ELSE <<>>

VisibleCables(cd, s) ==
    IF cd # Null /\ Has(cd, "cables")
    THEN SelectSeq(cd.cables, LAMBDA c : s.showCables /\ Has(c, "route") /\ Len(c.route) >= 2)
    ELSE <<>>

C5_RenderedIsFunctionOfSettings ==
    Running =>
        LET els == VisibleElements(networkData, settings)
            cns == VisibleConnections(networkData, settings)
            cbs == VisibleCables(cableData, settings)
        IN /\ [i \in 1..Len(equipment) |-> meshes[equipment[i]].userData.id]
                  = [i \in 1..Len(els) |-> els[i].id]
           /\ [i \in 1..Len(connections) |-> connections[i].conn]
                  = [i \in 1..Len(cns) |-> cns[i]]
           /\ [i \in 1..Len(cableLines) |-> cableLines[i].userData]
                  = [i \in 1..Len(cbs) |-> cbs[i]]
           /\ scene = SeqToBag([i \in 1..Len(els) |-> ElementTag(els[i])])
                        (+) SeqToBag([i \in 1..Len(cns) |-> ConnectionTag(cns[i])])
                        (+) SeqToBag([i \in 1..Len(cbs) |-> CableTag(cbs[i])])

\* reached by a second rebuild that restores settings changed before
C5_Witness ==
    /\ Running
    /\ networkData = TopoAB
    /\ cableData = CablesMixed
    /\ settings = [InitialSettings EXCEPT !.isRotating = FALSE]
    /\ counters.connectionCount = 4
    /\ \E r \in 1..Len(meshes) :
          /\ meshes[r].userData.id = "A"
          /\ meshes[r].position = SnapToRadius(meshes[r].userData.originalPosition, SurfaceRadius)

----------------------------------------------------------------------------
(* C6: a cable whose route is missing or has fewer than 2 waypoints is never*)
(* in the rendered cable list, and every cable of the batch with at least 2 *)
(* waypoints is rendered when showCables is on.                             *)

RenderedCableIds == {cableLines[i].userData.id : i \in 1..Len(cableLines)}

C6_ShortRoutesSkipped ==
    (Running /\ cableData # Null /\ Has(cableData, "cables")) =>
        \A i \in 1..Len(cableData.cables) :
            LET c == cableData.cables[i] IN
            /\ (~Has(c, "route") => c.id \notin RenderedCableIds)
            /\ (Has(c, "route") /\ Len(c.route) < 2 => c.id \notin RenderedCableIds)
            /\ (Has(c, "route") /\ Len(c.route) >= 2 /\ settings.showCables
                   => c.id \in RenderedCableIds /\ c.id \in SceneKeys("cable"))
            /\ SceneKeys("cable") = RenderedCableIds

C6_Witness ==
    /\ Running
    /\ cableData = CablesMixed
    /\ settings.showCables
    /\ RenderedCableIds = {"c1", "c4"}
    /\ ~settings.showStations

----------------------------------------------------------------------------
(* C7: a frame that advances the rotation (a tick while Rotating) puts every*)
(* non-satellite element at the projection of its stored latitude and of its*)
(* stored longitude plus the rotation angle in degrees; after 30 degrees an *)
(* element stored at longitude 10 is at the projection of longitude 40.     *)

ProjectionOfRotated(userData, rot) ==
    [phi |-> Deg(90) - userData.lat,
     theta |-> (userData.lng + rot * RotationPerFrame + Deg(180)) % FullTurn,
     radius |-> IF userData.alt = 0 THEN SurfaceRadius ELSE EarthRadius * Milli + userData.alt]

GroundElementsFollow(rot) ==
    \A r \in 1..Len(meshes) :
        meshes[r].userData.type # "satellite" =>
            meshes[r].position = ProjectionOfRotated(meshes[r].userData, rot)

C7_GroundFollowsRotation ==
    [][(Running' /\ earthRotation' # earthRotation) => GroundElementsFollow(earthRotation)']_vars

C7_Witness ==
    /\ Running
    /\ earthRotation * RotationPerFrame >= Deg(30)
    /\ earthRotation * RotationPerFrame < Deg(30) + RotationPerFrame
    /\ \E r \in 1..Len(meshes) :
          /\ meshes[r].userData.id = "A"
          /\ meshes[r].userData.lng = Deg(10)
          /\ meshes[r].position.theta >= Deg(40 + 180)
          /\ meshes[r].position.theta < Deg(40 + 180) + RotationPerFrame

----------------------------------------------------------------------------
(* C8: the rotation control has the two states Rotating (isRotating = TRUE) *)
(* and Paused (FALSE), starts in Rotating, and only the rotate and stop     *)
(* buttons change it: frames, filter changes, zoom and selection do not.    *)

C8_RotationControl ==
    /\ settings.isRotating = TRUE
    /\ [](settings.isRotating \in BOOLEAN)
    /\ [][settings'.isRotating # settings.isRotating => (BtnRotate \/ BtnStop)]_vars

C8_Witness ==
    /\ Running
    /\ ~settings.isRotating
    /\ settings.zoomLevel # InitialZoom
    /\ selectedElement # NoSelection
    /\ ~settings.showProposed
    /\ earthRotation >= 2

----------------------------------------------------------------------------
(* C9: while Paused a frame changes neither the rotation angle nor the      *)
(* position of any element; the angle changes only in frames taken while    *)
(* Rotating.                                                                *)

C9_PausedFrameChangesNothing ==
    /\ [][(~settings.isRotating /\ Tick) => UNCHANGED <<earthRotation, meshes>>]_vars
    /\ [][(Running /\ earthRotation' # earthRotation) => (settings.isRotating /\ Tick)]_vars

C9_Witness ==
    /\ Running
    /\ ~settings.isRotating
    /\ earthRotation >= 1
    /\ earthRotation < MaxTicks
    /\ \E r \in 1..Len(meshes) : meshes[r].userData.type = "satellite"
    /\ \E r \in 1..Len(meshes) : meshes[r].userData.type # "satellite"

----------------------------------------------------------------------------
(* C10: whenever showCables is off the scene holds no connection line and no*)
(* cable line, whatever the other toggles are.                              *)

C10_NoLinesWithoutShowCables ==
    (Running /\ ~settings.showCables) =>
        /\ connections = <<>>
        /\ cableLines = <<>>
        /\ SceneKeys("connection") = {}
        /\ SceneKeys("cable") = {}

C10_Witness ==
    /\ Running
    /\ ~settings.showCables
    /\ networkData = TopoAB
    /\ cableData = CablesMixed
    /\ settings.showExisting /\ settings.showProposed /\ settings.showStations
    /\ settings.showRouters /\ settings.showSatellites
    /\ Len(equipment) = 4

----------------------------------------------------------------------------
(* C11: a record of the batch that lacks lat or lng is dropped and never    *)
(* rendered (no mesh in the scene or in this.equipment), the well-formed    *)
(* records of the batch that pass the filters are rendered, and the bad     *)
(* record makes neither the load nor a rebuild fail.                        *)

WellFormed(e) == Has(e, "lat") /\ Has(e, "lng")

C11_MalformedDropped ==
    (lastFetch = "ok" /\ pc # "fetchCables") =>
        /\ pc = "running"
        /\ \A i \in 1..Len(networkData.elements) :
              LET e == networkData.elements[i] IN
              IF WellFormed(e)
              THEN ShouldShowElement(variant, settings, e) => e.id \in SceneKeys("element")
              ELSE e.id \notin SceneKeys("element") /\ e.id \notin EquipmentIds
----------------------------------------------------------------------------
(* C12: the rotation angle of the globe is kept modulo a full turn: it is   *)
(* never negative and always below 2 pi (360 degrees), however many frames  *)
(* have been rendered.                                                      *)

C12_AngleWrapped ==
    /\ RotationDegrees(earthRotation) >= 0
    /\ RotationDegrees(earthRotation) < FullTurn
----------------------------------------------------------------------------
(* C13: every frame the second class renders shows one rotation state: at   *)
(* the render call that ends a frame, each rendered well-formed ground      *)
(* element is at the projection of its coordinates for the rotation angle   *)
(* the globe has in that frame, whatever ticks, pauses, resumes and filter  *)
(* rebuilds came before.  The frame drawn from a state is what animate()    *)
(* computes from it before it calls render.                                 *)

C13_FrameShowsOneRotation ==
    (Running /\ animating /\ variant = "v2") =>
        \A time \in Times :
            LET f == AnimateFrame(variant, settings, time, Globe, earthRotation) IN
            \A r \in 1..Len(f.globe.meshes) :
                LET m == f.globe.meshes[r] IN
                (m.userData.type # "satellite" /\ WellFormed(m.userData)) =>
                    m.position = ProjectionOfRotated(m.userData, f.rot)
----------------------------------------------------------------------------
(* C16: the topology and cable requests do not hold the render loop back:   *)
(* while a request of init() is still pending (and so also when it never    *)
(* settles) the animation loop has been started and frames are rendered.    *)

C16_LoopRunsWhilePending ==
    pc \in {"fetchNetwork", "fetchCables"} => animating
----------------------------------------------------------------------------
(* C17: the geographic data is never changed after loading: after any       *)
(* number of frames and rebuilds every rendered element carries the fields  *)
(* of its record of networkData as loaded (lat, lng, alt among them), and   *)
(* networkData and cableData themselves are not written once the scene      *)
(* runs; a frame writes only the derived position.                          *)

C17_GeoDataUnchanged ==
    /\ [](Running =>
            \A r \in 1..Len(meshes) :
                \E i \in 1..Len(networkData.elements) :
                    LET e == networkData.elements[i] IN
                    /\ e.id = meshes[r].userData.id
                    /\ \A f \in DOMAIN e : meshes[r].userData[f] = e[f])
    /\ [][Running => (networkData' = networkData /\ cableData' = cableData)]_vars

\* A has been rebuilt and then moved by frames; its stored longitude is still 10
C17_Witness ==
    /\ Running
    /\ networkData = TopoAB
    /\ ~settings.showProposed
    /\ earthRotation >= 3
    /\ \E r \in 1..Len(meshes) :
          /\ meshes[r].userData.id = "A"
          /\ meshes[r].userData.lng = Deg(10)
          /\ meshes[r].position.theta = Deg(10 + 180) + RotationDegrees(earthRotation)
----------------------------------------------------------------------------
(* C18: a rebuild removes every scene object of the previous set before it  *)
(* builds the new one, so the scene holds only the objects of the elements  *)
(* the current settings show, each once: no element mesh and no glow mesh   *)
(* (with its pulsation loop) is left over from an earlier build.            *)

ShownIds ==
    IF HasElements(networkData)
    THEN {networkData.elements[i].id : i \in
             {j \in 1..Len(networkData.elements) :
                 ShouldShowElement(variant, settings, networkData.elements[j])}}
    ELSE {}

C18_SceneHoldsOnlyRendered ==
    Running =>
        /\ \A t \in BagToSet(scene) : CopiesIn(t, scene) = 1
        /\ SceneKeys("element") \subseteq ShownIds
        /\ SceneKeys("glow") \subseteq ShownIds
----------------------------------------------------------------------------
(* C14: after GlobeScene.destroy() no frame is scheduled or rendered any    *)
(* more, isInitialized is false, and a later loadNetworkData adds nothing   *)
(* to the scene or to the element list.                                     *)

C14_DestroyStopsScene ==
    /\ [](globeScene.destroyed =>
             (~globeScene.isInitialized /\ globeScene.scheduled = {}
                 /\ globeScene.children = {}))
    /\ [][globeScene.destroyed =>
             /\ globeScene'.frames = globeScene.frames
             /\ globeScene'.children = globeScene.children
             /\ globeScene'.networkElements = globeScene.networkElements]_vars

\* destroyed after frames were rendered and the demo data was on the scene
C14_Witness ==
    /\ globeScene.destroyed
    /\ globeScene.env = "ok"
    /\ globeScene.frames >= 2
    /\ globeScene.frames < MaxSceneFrames
    /\ Len(globeScene.networkElements) = 4

----------------------------------------------------------------------------
(* C15: when the WebGL check of GlobeScene.init fails, the container shows  *)
(* the WebGL message, which no other failure of init shows (those show the  *)
(* initialisation error), the animation loop is never started, the scene is *)
(* never initialised and loadNetworkData creates no element.                *)

C15_NoWebGLReported ==
    /\ (globeScene.constructed /\ globeScene.env = "noWebGL") =>
          /\ globeScene.container = "webglError"
          /\ ~globeScene.isInitialized
          /\ globeScene.animationId = 0
          /\ globeScene.scheduled = {}
          /\ globeScene.frames = 0
          /\ globeScene.children = {}
          /\ globeScene.networkElements = <<>>
          /\ globeScene.networkConnections = <<>>
    /\ globeScene.container = "webglError" => globeScene.env = "noWebGL"
    /\ globeScene.env = "noControls" => globeScene.container = "initError"

C15_Witness ==
    /\ globeScene.constructed
    /\ globeScene.env = "noWebGL"
    /\ globeScene.container = "webglError"
    /\ ~globeScene.destroyed
----------------------------------------------------------------------------
(* C19: in the layered NetworkGlobe, after every toggleCables and every     *)
(* switchNetwork a connection is visible exactly when showCables is on and  *)
(* its layer is the selected network (either layer for 'hybrid').           *)

CableVisibilityRule(g) ==
    \A i \in 1..Len(g.connections) :
        g.connections[i].visible <=>
            (g.showCables /\ (g.currentNetwork = "hybrid" \/
                                 g.connections[i].layer = g.currentNetwork))

C19_CableVisibility ==
    [][(layerGlobe.loaded /\ (ToggleCables \/ \E t \in NetworkTypes : SwitchNetwork(t)))
           => CableVisibilityRule(layerGlobe')]_vars

----------------------------------------------------------------------------
(* C20: in Z96AGlobe, after toggleNetworkType(type) no connection line is   *)
(* visible while one of the two nodes it joins is hidden.                   *)

C20_NoLineToHiddenNode ==
    [][(\E t \in NetworkTypes : ToggleNetworkType(t)) =>
          \A i \in 1..Len(z96aGlobe'.connections) :
              LET c == z96aGlobe'.connections[i] IN
              (c.visible /\ ~c.curve) =>
                  (z96aGlobe'.nodes[c.from].visible /\ z96aGlobe'.nodes[c.to].visible)]_vars

----------------------------------------------------------------------------
(* C27: after every rebuild the displayed counters match the scene: the     *)
(* element counter is the number of element meshes of the current build and *)
(* the connection counter is the number of lines of the current build, for  *)
(* any filter settings and any topology, links with a filtered or missing   *)
(* end included.                                                            *)

C27_CountersMatchScene ==
    Running =>
        /\ counters.elementCount = Len(meshes)
        /\ counters.connectionCount = Len(connections) + Len(cableLines)

----------------------------------------------------------------------------
(* C21: whenever a chat WebSocket closes, one more reconnect timer is       *)
(* pending after the close, however many closes came before, and while a    *)
(* timer is pending a new socket is eventually connecting.                  *)

C21_CloseSchedulesReconnect ==
    /\ [][LiveSockets(window.chat') < LiveSockets(window.chat)
            => window.chat'.timers = window.chat.timers + 1]_vars
    /\ (window.chat.timers > 0) ~> (window.chat.socket = "connecting")

C21_Witness == window.chat.socket = "closed" /\ window.chat.timers > 0

(* C22: at any time at most one chat WebSocket is open or connecting, and   *)
(* no socket is alive while a reconnect is pending.                         *)

C22_OneLiveSocket ==
    /\ LiveSockets(window.chat) <= 1
    /\ window.chat.timers > 0 => LiveSockets(window.chat) = 0

(* C23: whenever no connectWallet and no disconnectWallet call is in        *)
(* flight, localStorage holds the wallet address of the session, and none   *)
(* when the session has no wallet.                                          *)

C23_PersistedAgreesWithSession ==
    (window.wallet.connecting = "idle" /\ ~window.wallet.disconnecting)
        => window.localStorage["z96a-wallet-address"] = window.wallet.walletAddress

(* C28: a page load restores, for each sidebar, the collapsed or expanded   *)
(* state that toggleSidebar saved for it.                                   *)

C28_SidebarRestored ==
    [][PageLoad =>
          \A id \in SidebarIds :
              window.localStorage[id \o "-state"] \in {"collapsed", "expanded"}
                  => (window'.sidebars[id].collapsed
                          = (window.localStorage[id \o "-state"] = "collapsed"))]_vars

(* C30: a debounced function has run once for each finished burst of calls, *)
(* and each run came DebounceWait after the last call before it, with that  *)
(* call's arguments; so it never runs while the calls are less than         *)
(* DebounceWait apart.                                                      *)

C30_OncePerBurst ==
    LET d == window.debounce IN
    /\ d.runs = d.bursts - (IF d.timeout.due >= 0 THEN 1 ELSE 0)
    /\ d.runs > 0 =>
          /\ d.lastRun.at = d.lastRun.callAt + DebounceWait
          /\ d.lastRun.args = d.lastRun.callArgs

C30_Witness ==
    LET d == window.debounce IN
    /\ d.runs > 0
    /\ d.lastRun.args = "b"
    /\ d.lastRun.callAt > d.lastRun.burstStart + DebounceWait

(* C25: in NewsManager currentPage always lies between 1 and the number of  *)
(* pages of the filtered article list (1 for an empty list), and a          *)
(* non-empty filtered list is never shown as the empty notice.              *)

C25_PageInRange ==
    LET n == window.news
        length == FilterArticles(n)
        pages == IF length = 0 THEN 1
                 ELSE (length + ArticlesPerPage - 1) \div ArticlesPerPage
    IN /\ n.currentPage >= 1
       /\ n.currentPage <= pages
       /\ n.view.kind = "empty" => length = 0

(* C26: in NewsManager isLoading is true exactly while one article fetch is *)
(* in flight, and there is never a second fetch.                            *)

C26_LoadingIffOneFetch ==
    /\ window.news.fetches \in {0, 1}
    /\ window.news.isLoading <=> window.news.fetches = 1

C26_Witness ==
    /\ window.news.view.kind = "error"
    /\ ~window.news.isLoading
    /\ window.news.initialised

(* C24: after a WalletManager.connect() that failed, by a rejecting         *)
(* provider or by a failed verification, the wallet, the userProfile and    *)
(* the wallet items of localStorage are what they were when it was called.  *)

C24_FailedConnectChangesNothing ==
    LET m == window.walletManager IN
    m.lastConnect = "failed" =>
        /\ m.wallet = m.before.wallet
        /\ m.userProfile = m.before.userProfile
        /\ m.savedWallet = m.before.savedWallet
        /\ m.savedNickname = m.before.savedNickname

(* C29: in the global-function globe the camera limits stay consistent      *)
(* after any sequence of zoom changes: minDistance <= maxDistance.          *)

C29_LimitsConsistent ==
    window.globeMain.minDistance <= window.globeMain.maxDistance

====
